---- MODULE Spec2Model ----
(***************************************************************************)
(* Model of the route-registrar registration coordinator                   *)
(* (registrar/registrar.go) and of its routing-API adapter                  *)
(* (routingapi/api.go).                                                     *)
(*                                                                          *)
(* Durations are integers counting milliseconds (Go counts nanoseconds);    *)
(* every duration used below is a multiple of 10 ms, for which              *)
(* float64(d) * 2.1 is a whole number of milliseconds, so the truncations   *)
(* of calculateTTL are the ones the Go code performs.                       *)
(***************************************************************************)
EXTENDS Integers, Sequences, FiniteSets, TLC

\* ------------------------------------------------------------------ bounds
\* ticks the tickers deliver, all together, in a run of Spec
MaxTicks == 3
\* ticks each per-route ticker delivers in a run of FairSpec
MaxFairTicks == 1
\* RegisterRoute / UnregisterRoute calls in a run of APISpec
MaxAPICalls == 2
\* APISpec draws the registration interval from 100 ms .. MaxIntervalTenths x
\* 100 ms (and 1 s, 10 s) and the maximum TTL from 500 ms .. MaxHalfSeconds x
\* 500 ms (and 5 s, 30 s)
MaxIntervalTenths == 5
MaxHalfSeconds == 4

\* ----------------------------------------------------------- configuration
NoHealthCheck == [present |-> FALSE, scriptPath |-> "", timeout |-> 0]

\* config.Config.Routes: an HTTP route without health check (the route of the
\* end-to-end test) and a TCP route with a health-check script.
Routes ==
  << [name |-> "My route", type |-> "http", host |-> "",
      uris |-> <<"uri-1", "uri-2">>, port |-> 12345,
      tags |-> [tag1 |-> "val1", tag2 |-> "val2"],
      registrationInterval |-> 1000, healthCheck |-> NoHealthCheck,
      routerGroup |-> "", externalPort |-> 0, serverCertDomainSAN |-> ""],
     [name |-> "tcp route", type |-> "tcp", host |-> "10.0.0.1",
      uris |-> << >>, port |-> 5222,
      tags |-> [tag1 |-> "val1", tag2 |-> "val2"],
      registrationInterval |-> 1000,
      healthCheck |-> [present |-> TRUE, scriptPath |-> "/check.sh", timeout |-> 500],
      routerGroup |-> "default-tcp", externalPort |-> 61000,
      serverCertDomainSAN |-> ""] >>

NumRoutes == Len(Routes)
RouteIdx == 1..NumRoutes

\* config.Config.Host, config.Config.MessageBusServers (their number),
\* config.Config.NATSmTLSConfig.Enabled
ConfigHost == "127.0.0.1"
MessageBusServers == <<"nats://127.0.0.1:4222">>
NATSmTLSEnabled == TRUE

\* the UUID NewRegistrar draws
PrivateInstanceId == "uuid-1"

\* what the routing backend may answer to RouterGroupWithName: an error, a
\* router group with an empty Guid, or a router group with a Guid
Resolutions == {"error", "", "guid-1", "guid-2"}

Nil == "<nil>"
NilErr == "nil"

VARIABLES
  pc,                 \* Run's position: "init", "ready", "spawn", "select",
                      \* "call", "sweep", "done"
  k,                  \* index of the shutdown sweep's loop over config.Routes
  runErr,             \* what Run returned (NilErr or an error), "running" before
  ready,              \* times the ready channel has been closed
  messageBusServers,  \* config.Config.MessageBusServers of this run
  busConn,            \* message bus: "unconnected", "connected", "closed"
  signals,            \* signals channel: "none", "pending", "taken"
  nohealthcheckChan, errChan, healthyChan, unhealthyChan,
  closeChans,         \* periodicHealthcheckCloseChans[i] is closed
  spc,                \* scheduler i: "idle", "select", "check", "send", "exited"
  sclass,             \* the channel scheduler i is sending on
  ticks,              \* ticks scheduler i has taken from ticker.C
  tickLimit,          \* ticks each ticker delivers in this run
  tickBudget,         \* ticks all tickers together deliver in this run
  inflight,           \* backend calls in progress
  calls,              \* history: registerRoutes / unregisterRoutes invocations
  returned,           \* history: the error each of them returned
  takenLog,           \* history: events the main loop received
  wire,               \* history: calls made on the collaborators
  routerGroupGUID,    \* RoutingAPI.routerGroupGUID
  token,              \* number of the token last set on the API client (0: none)
  routingAPIMaxTTL,   \* RoutingAPI.routingAPIMaxTTL
  apiInterval,        \* APISpec: RegistrationInterval of the routes registered
  apiCalls            \* APISpec: RegisterRoute / UnregisterRoute calls made

chanVars == <<nohealthcheckChan, errChan, healthyChan, unhealthyChan>>
schedVars == <<spc, sclass, ticks, tickLimit, tickBudget>>
apiVars == <<routerGroupGUID, token, routingAPIMaxTTL, apiInterval, apiCalls>>
vars == <<pc, k, runErr, ready, messageBusServers, busConn, signals, chanVars,
          closeChans,
          schedVars, inflight, calls, returned, takenLog, wire, apiVars>>

\* ------------------------------------------------------------ routing API
\* integer division truncating toward zero, as Go's conversions do
TruncDiv(a, b) == IF a >= 0 THEN a \div b ELSE -((-a) \div b)

\* int(d.Seconds())
Seconds(d) == TruncDiv(d, 1000)

\* TTL_BUFFER = 2.1, as tenths
TTL_BUFFER_X10 == 21

\* mutant: the buffer factor is 2 (the TTL is twice the interval)
calculateTTLDoubled(requestedTTL, maxTTL) ==
  LET ttl == requestedTTL * 2
  IN  IF ttl > maxTTL THEN Seconds(maxTTL)
      ELSE IF Seconds(ttl) < 1 THEN 1
      ELSE Seconds(ttl)

\* mutant: the computed TTL is not clamped to the maximum
calculateTTLNoClamp(requestedTTL, maxTTL) ==
  LET ttl == TruncDiv(requestedTTL * TTL_BUFFER_X10, 10)
  IN  IF Seconds(ttl) < 1 THEN 1 ELSE Seconds(ttl)

calculateTTL(requestedTTL, maxTTL) ==
  LET ttl == TruncDiv(requestedTTL * TTL_BUFFER_X10, 10)
  IN  IF ttl > maxTTL THEN Seconds(maxTTL)
      ELSE IF Seconds(ttl) < 1 THEN 1
      ELSE Seconds(ttl)

nilIfEmpty(str) == IF str = "" THEN Nil ELSE str

EmptyCache == [n \in {} |-> ""]

\* the call getRouterGroupGUID makes on a cache miss, with the backend's answer
Resolve(name, res) == <<[op |-> "RouterGroupWithName", name |-> name, answer |-> res]>>

\* fmt.Errorf("Router group '%s' not found", name)
NotFound(name) == "Router group '" \o name \o "' not found"

\* mutant: the resolved identifier is never stored
getRouterGroupGUIDNoStore(name, cache, res) ==
  IF res = "error"
  THEN [guid |-> "", err |-> "router-group-error", cache |-> cache,
        ops |-> Resolve(name, res)]
  ELSE IF res = ""
  THEN [guid |-> "", err |-> NotFound(name), cache |-> cache, ops |-> Resolve(name, res)]
  ELSE [guid |-> res, err |-> NilErr, cache |-> cache, ops |-> Resolve(name, res)]

\* mutant: an empty identifier is taken as a resolution like any other
getRouterGroupGUIDEmptyOK(name, cache, res) ==
  IF name \in DOMAIN cache
  THEN [guid |-> cache[name], err |-> NilErr, cache |-> cache, ops |-> << >>]
  ELSE IF res = "error"
  THEN [guid |-> "", err |-> "router-group-error", cache |-> cache,
        ops |-> Resolve(name, res)]
  ELSE [guid |-> res, err |-> NilErr, ops |-> Resolve(name, res),
        cache |-> [n \in DOMAIN cache \cup {name} |->
                     IF n = name THEN res ELSE cache[n]]]

\* mutant: the cache is not consulted; every call resolves and stores anew
getRouterGroupGUIDRefresh(name, cache, res) ==
  IF res = "error"
  THEN [guid |-> "", err |-> "router-group-error", cache |-> cache,
        ops |-> Resolve(name, res)]
  ELSE IF res = ""
  THEN [guid |-> "", err |-> NotFound(name), cache |-> cache, ops |-> Resolve(name, res)]
  ELSE [guid |-> res, err |-> NilErr, ops |-> Resolve(name, res),
        cache |-> [n \in DOMAIN cache \cup {name} |->
                     IF n = name THEN res ELSE cache[n]]]

\* getRouterGroupGUID: res is the backend's answer, used only on a cache miss
getRouterGroupGUID(name, cache, res) ==
  IF name \in DOMAIN cache
  THEN [guid |-> cache[name], err |-> NilErr, cache |-> cache, ops |-> << >>]
  ELSE IF res = "error"
  THEN [guid |-> "", err |-> "router-group-error", cache |-> cache,
        ops |-> Resolve(name, res)]
  ELSE IF res = ""
  THEN [guid |-> "", err |-> NotFound(name), cache |-> cache, ops |-> Resolve(name, res)]
  ELSE [guid |-> res, err |-> NilErr, ops |-> Resolve(name, res),
        cache |-> [n \in DOMAIN cache \cup {name} |->
                     IF n = name THEN res ELSE cache[n]]]

\* models.NewSniTcpRouteMapping with the arguments makeTcpRouteMapping passes
makeTcpRouteMapping(route, guid, maxTTL) ==
  [routerGroupGuid |-> guid,
   externalPort |-> route.externalPort,
   sni |-> nilIfEmpty(route.serverCertDomainSAN),
   hostIP |-> route.host,
   hostPort |-> route.port,
   ttl |-> calculateTTL(route.registrationInterval, maxTTL)]

\* mutant: the mapping is made before the token is refreshed
APICallTokenAfter(backendOp, route, cache, tok, maxTTL, tokOK, res, opOK) ==
  LET g == getRouterGroupGUID(route.routerGroup, cache, res)
  IN  IF ~tokOK
      THEN [err |-> "token-error", cache |-> g.cache, token |-> tok,
            ops |-> g.ops \o <<[op |-> "FetchToken", ok |-> FALSE]>>]
      ELSE LET pre == <<[op |-> "FetchToken", ok |-> TRUE],
                        [op |-> "SetToken", token |-> tok + 1]>>
           IN  IF g.err # NilErr
               THEN [err |-> g.err, cache |-> g.cache, token |-> tok + 1,
                     ops |-> g.ops \o pre]
               ELSE [err |-> IF opOK THEN NilErr ELSE "routing-api-error",
                     cache |-> g.cache, token |-> tok + 1,
                     ops |-> g.ops \o pre \o
                       <<[op |-> backendOp,
                          mappings |-> <<makeTcpRouteMapping(route, g.guid, maxTTL)>>]>>]

\* RegisterRoute (backendOp = "UpsertTcpRouteMappings") and UnregisterRoute
\* (backendOp = "DeleteTcpRouteMappings"): refreshToken, makeTcpRouteMapping,
\* then the backend call. tokOK, res, opOK are the collaborators' answers.
APICall(backendOp, route, cache, tok, maxTTL, tokOK, res, opOK) ==
  IF ~tokOK
  THEN [err |-> "token-error", cache |-> cache, token |-> tok,
        ops |-> <<[op |-> "FetchToken", ok |-> FALSE]>>]
  ELSE LET g == getRouterGroupGUID(route.routerGroup, cache, res)
           pre == <<[op |-> "FetchToken", ok |-> TRUE],
                    [op |-> "SetToken", token |-> tok + 1]>>
       IN  IF g.err # NilErr
           THEN [err |-> g.err, cache |-> g.cache, token |-> tok + 1,
                 ops |-> pre \o g.ops]
           ELSE [err |-> IF opOK THEN NilErr ELSE "routing-api-error",
                 cache |-> g.cache, token |-> tok + 1,
                 ops |-> pre \o g.ops \o
                   <<[op |-> backendOp,
                      mappings |-> <<makeTcpRouteMapping(route, g.guid, maxTTL)>>]>>]

RegisterRoute(route, cache, tok, maxTTL, tokOK, res, opOK) ==
  APICall("UpsertTcpRouteMappings", route, cache, tok, maxTTL, tokOK, res, opOK)

\* mutant: the mapping to delete is made without a TTL budget
UnregisterRouteNoTTL(route, cache, tok, maxTTL, tokOK, res, opOK) ==
  APICall("DeleteTcpRouteMappings", route, cache, tok, 0, tokOK, res, opOK)

UnregisterRoute(route, cache, tok, maxTTL, tokOK, res, opOK) ==
  APICall("DeleteTcpRouteMappings", route, cache, tok, maxTTL, tokOK, res, opOK)

\* -------------------------------------------------------------- registrar
\* registerRoutes / unregisterRoutes: the call each dispatches to
\* mutant: registerRoutes publishes on the unregister topic
registerRoutesWrongTopic(route) ==
  IF route.type = "tcp"
  THEN [op |-> "register", route |-> route, via |-> "routingAPI",
        method |-> "RegisterRoute", topic |-> ""]
  ELSE [op |-> "register", route |-> route, via |-> "messageBus",
        method |-> "SendMessage", topic |-> "router.unregister"]

registerRoutes(route) ==
  IF route.type = "tcp"
  THEN [op |-> "register", route |-> route, via |-> "routingAPI",
        method |-> "RegisterRoute", topic |-> ""]
  ELSE [op |-> "register", route |-> route, via |-> "messageBus",
        method |-> "SendMessage", topic |-> "router.register"]

\* mutant: unregisterRoutes has no TCP branch
unregisterRoutesBusOnly(route) ==
  [op |-> "unregister", route |-> route, via |-> "messageBus",
   method |-> "SendMessage", topic |-> "router.unregister"]

unregisterRoutes(route) ==
  IF route.type = "tcp"
  THEN [op |-> "unregister", route |-> route, via |-> "routingAPI",
        method |-> "UnregisterRoute", topic |-> ""]
  ELSE [op |-> "unregister", route |-> route, via |-> "messageBus",
        method |-> "SendMessage", topic |-> "router.unregister"]

\* the health check the scheduler acts on (registrar.go:169)
HasHealthCheck(route) ==
  ~(~route.healthCheck.present \/ route.healthCheck.scriptPath = "")

Start(limit, budget, servers) ==
  /\ pc = "init" /\ k = 0 /\ runErr = "running" /\ ready = 0
  /\ messageBusServers \in servers
  /\ busConn = "unconnected" /\ signals = "none"
  /\ nohealthcheckChan = << >> /\ errChan = << >>
  /\ healthyChan = << >> /\ unhealthyChan = << >>
  /\ closeChans = [i \in RouteIdx |-> FALSE]
  /\ spc = [i \in RouteIdx |-> "idle"]
  /\ sclass = [i \in RouteIdx |-> "none"]
  /\ ticks = [i \in RouteIdx |-> 0] /\ tickLimit = limit /\ tickBudget = budget
  /\ inflight = << >> /\ calls = << >> /\ returned = << >>
  /\ takenLog = << >> /\ wire = << >>
  /\ routerGroupGUID = EmptyCache /\ token = 0
  /\ routingAPIMaxTTL = 120000
  /\ apiInterval = 0 /\ apiCalls = 0

\* Run is started with the configured message-bus servers or with none
Init == Start(MaxTicks, MaxTicks, {MessageBusServers, << >>})

\* what messageBus.Connect leaves in wire
Connected(ok) == [for |-> "", op |-> "", call |-> [op |-> "Connect", ok |-> ok]]

\* mutant: a failed Connect is logged and Run goes on
RunStartIgnoreConnectError ==
  /\ pc = "init"
  /\ \E tlsOK \in BOOLEAN, connOK \in BOOLEAN :
       IF NATSmTLSEnabled /\ ~tlsOK
       THEN /\ pc' = "done" /\ runErr' = "failed building NATS mTLS config"
            /\ UNCHANGED <<busConn, wire>>
       ELSE /\ pc' = "ready" /\ UNCHANGED runErr
            /\ busConn' = IF Len(messageBusServers) > 0 /\ connOK
                          THEN "connected" ELSE busConn
            /\ wire' = IF Len(messageBusServers) > 0
                       THEN Append(wire, Connected(connOK)) ELSE wire
  /\ UNCHANGED <<k, ready, messageBusServers, signals, chanVars, closeChans,
                 schedVars, inflight, calls, returned, takenLog, apiVars>>

\* Run, lines 59-82: the mTLS configuration and messageBus.Connect
RunStart ==
  /\ pc = "init"
  /\ \E tlsOK \in BOOLEAN, connOK \in BOOLEAN :
       IF NATSmTLSEnabled /\ ~tlsOK
       THEN /\ pc' = "done" /\ runErr' = "failed building NATS mTLS config"
            /\ UNCHANGED <<busConn, wire>>
       ELSE IF Len(messageBusServers) > 0 /\ ~connOK
       THEN /\ pc' = "done" /\ runErr' = "connect-error"
            /\ wire' = Append(wire, Connected(FALSE))
            /\ UNCHANGED busConn
       ELSE /\ pc' = "ready" /\ UNCHANGED runErr
            /\ busConn' = IF Len(messageBusServers) > 0 THEN "connected" ELSE busConn
            /\ wire' = IF Len(messageBusServers) > 0
                       THEN Append(wire, Connected(TRUE)) ELSE wire
  /\ UNCHANGED <<k, ready, messageBusServers, signals, chanVars, closeChans,
                 schedVars, inflight, calls, returned, takenLog, apiVars>>

\* close(ready), line 83
CloseReady ==
  /\ pc = "ready"
  /\ ready' = ready + 1 /\ pc' = "spawn"
  /\ UNCHANGED <<k, runErr, messageBusServers, busConn, signals, chanVars,
                 closeChans, schedVars, inflight, calls, returned, takenLog,
                 wire, apiVars>>

\* lines 85-105: the channels are made and one scheduler per route is started
StartSchedulers ==
  /\ pc = "spawn"
  /\ spc' = [i \in RouteIdx |-> "select"] /\ pc' = "select"
  /\ UNCHANGED <<k, runErr, ready, messageBusServers, busConn, signals,
                 chanVars, closeChans, sclass, ticks, tickLimit, tickBudget,
                 inflight, calls, returned, takenLog, wire, apiVars>>

\* ------------------------------------------------- per-route scheduler
\* periodicallyDetermineHealth of Routes[i]. The select chooses among its
\* ready cases, so a tick may be taken while closeChan is already closed.
RECURSIVE SumTo(_, _)
SumTo(f, n) == IF n = 0 THEN 0 ELSE f[n] + SumTo(f, n - 1)

SchedTick(i) ==
  /\ spc[i] = "select"
  /\ ticks[i] < tickLimit /\ SumTo(ticks, NumRoutes) < tickBudget
  /\ ticks' = [ticks EXCEPT ![i] = @ + 1]
  /\ IF ~HasHealthCheck(Routes[i])
     THEN /\ spc' = [spc EXCEPT ![i] = "send"]
          /\ sclass' = [sclass EXCEPT ![i] = "nohealthcheckChan"]
     ELSE /\ spc' = [spc EXCEPT ![i] = "check"]
          /\ UNCHANGED sclass
  /\ UNCHANGED <<pc, k, runErr, ready, messageBusServers, busConn, signals,
                 chanVars, closeChans, tickLimit, tickBudget, inflight,
                 calls, returned, takenLog, wire, apiVars>>

\* healthChecker.Check returns (healthy, err)
SchedCheck(i) ==
  /\ spc[i] = "check"
  /\ \E healthy \in BOOLEAN, checkErr \in BOOLEAN :
       sclass' = [sclass EXCEPT ![i] =
                    IF checkErr THEN "errChan"
                    ELSE IF healthy THEN "healthyChan" ELSE "unhealthyChan"]
  /\ spc' = [spc EXCEPT ![i] = "send"]
  /\ UNCHANGED <<pc, k, runErr, ready, messageBusServers, busConn, signals,
                 chanVars, closeChans, ticks, tickLimit, tickBudget,
                 inflight, calls, returned, takenLog, wire, apiVars>>

\* the channel send, which blocks while the buffer (capacity len(Routes)) is full
Event(i) == [route |-> Routes[i], tick |-> ticks[i]]

SchedSend(i) ==
  /\ spc[i] = "send"
  /\ \/ /\ sclass[i] = "nohealthcheckChan" /\ Len(nohealthcheckChan) < NumRoutes
        /\ nohealthcheckChan' = Append(nohealthcheckChan, Event(i))
        /\ UNCHANGED <<errChan, healthyChan, unhealthyChan>>
     \/ /\ sclass[i] = "errChan" /\ Len(errChan) < NumRoutes
        /\ errChan' = Append(errChan, Event(i))
        /\ UNCHANGED <<nohealthcheckChan, healthyChan, unhealthyChan>>
     \/ /\ sclass[i] = "healthyChan" /\ Len(healthyChan) < NumRoutes
        /\ healthyChan' = Append(healthyChan, Event(i))
        /\ UNCHANGED <<nohealthcheckChan, errChan, unhealthyChan>>
     \/ /\ sclass[i] = "unhealthyChan" /\ Len(unhealthyChan) < NumRoutes
        /\ unhealthyChan' = Append(unhealthyChan, Event(i))
        /\ UNCHANGED <<nohealthcheckChan, errChan, healthyChan>>
  /\ spc' = [spc EXCEPT ![i] = "select"]
  /\ sclass' = [sclass EXCEPT ![i] = "none"]
  /\ UNCHANGED <<pc, k, runErr, ready, messageBusServers, busConn, signals,
                 closeChans, ticks, tickLimit, tickBudget, inflight, calls,
                 returned, takenLog, wire, apiVars>>

\* mutant: on its stop signal the scheduler emits a last no-check event
SchedCloseFinalEvent(i) ==
  /\ spc[i] = "select" /\ closeChans[i]
  /\ spc' = [spc EXCEPT ![i] = "exited"]
  /\ nohealthcheckChan' = Append(nohealthcheckChan, Event(i))
  /\ UNCHANGED <<pc, k, runErr, ready, messageBusServers, busConn, signals,
                 errChan, healthyChan, unhealthyChan, closeChans, sclass, ticks,
                 tickLimit, tickBudget, inflight, calls, returned, takenLog,
                 wire, apiVars>>

\* case <-closeChan: return
SchedClose(i) ==
  /\ spc[i] = "select" /\ closeChans[i]
  /\ spc' = [spc EXCEPT ![i] = "exited"]
  /\ UNCHANGED <<pc, k, runErr, ready, messageBusServers, busConn, signals,
                 chanVars, closeChans, sclass, ticks, tickLimit, tickBudget,
                 inflight, calls, returned, takenLog, wire, apiVars>>

\* ------------------------------------------------------- coordinator
\* the operating system delivers SIGINT / SIGTERM
SendSignal ==
  /\ signals = "none"
  /\ signals' = "pending"
  /\ UNCHANGED <<pc, k, runErr, ready, messageBusServers, busConn, chanVars,
                 closeChans, schedVars, inflight, calls, returned, takenLog,
                 wire, apiVars>>

\* mutant: the call is started without waiting for it (go r.registerRoutes(route))
DispatchAsync(call, cause, tick) ==
  /\ calls' = Append(calls, [op |-> call.op, route |-> call.route, via |-> call.via,
                             topic |-> call.topic, cause |-> cause, tick |-> tick])
  /\ inflight' = Append(inflight, [call |-> call, cause |-> cause])
  /\ pc' = pc

\* a case of the main select invokes registerRoutes / unregisterRoutes, whose
\* backend call is then in progress
Dispatch(call, cause, tick) ==
  /\ calls' = Append(calls, [op |-> call.op, route |-> call.route, via |-> call.via,
                             topic |-> call.topic, cause |-> cause, tick |-> tick])
  /\ inflight' = Append(inflight, [call |-> call, cause |-> cause])
  /\ pc' = "call"

Taken(chan, ev) ==
  Append(takenLog, [chan |-> chan, route |-> ev.route, tick |-> ev.tick])

\* mutant: the no-check case unregisters the route
RecvNoHealthcheckUnregisters ==
  /\ pc = "select" /\ nohealthcheckChan # << >>
  /\ nohealthcheckChan' = Tail(nohealthcheckChan)
  /\ takenLog' = Taken("nohealthcheckChan", Head(nohealthcheckChan))
  /\ Dispatch(unregisterRoutes(Head(nohealthcheckChan).route), "nohealthcheckChan",
              Head(nohealthcheckChan).tick)
  /\ UNCHANGED <<k, runErr, ready, messageBusServers, busConn, signals,
                 errChan, healthyChan, unhealthyChan, closeChans, schedVars,
                 returned, wire, apiVars>>

RecvNoHealthcheck ==
  /\ pc = "select" /\ nohealthcheckChan # << >>
  /\ nohealthcheckChan' = Tail(nohealthcheckChan)
  /\ takenLog' = Taken("nohealthcheckChan", Head(nohealthcheckChan))
  /\ Dispatch(registerRoutes(Head(nohealthcheckChan).route), "nohealthcheckChan",
              Head(nohealthcheckChan).tick)
  /\ UNCHANGED <<k, runErr, ready, messageBusServers, busConn, signals,
                 errChan, healthyChan, unhealthyChan, closeChans, schedVars,
                 returned, wire, apiVars>>

\* mutant: the check-error case registers the route
RecvErrRegisters ==
  /\ pc = "select" /\ errChan # << >>
  /\ errChan' = Tail(errChan)
  /\ takenLog' = Taken("errChan", Head(errChan))
  /\ Dispatch(registerRoutes(Head(errChan).route), "errChan", Head(errChan).tick)
  /\ UNCHANGED <<k, runErr, ready, messageBusServers, busConn, signals,
                 nohealthcheckChan, healthyChan, unhealthyChan, closeChans,
                 schedVars, returned, wire, apiVars>>

RecvErr ==
  /\ pc = "select" /\ errChan # << >>
  /\ errChan' = Tail(errChan)
  /\ takenLog' = Taken("errChan", Head(errChan))
  /\ Dispatch(unregisterRoutes(Head(errChan).route), "errChan", Head(errChan).tick)
  /\ UNCHANGED <<k, runErr, ready, messageBusServers, busConn, signals,
                 nohealthcheckChan, healthyChan, unhealthyChan, closeChans,
                 schedVars, returned, wire, apiVars>>

RecvHealthy ==
  /\ pc = "select" /\ healthyChan # << >>
  /\ healthyChan' = Tail(healthyChan)
  /\ takenLog' = Taken("healthyChan", Head(healthyChan))
  /\ Dispatch(registerRoutes(Head(healthyChan).route), "healthyChan",
              Head(healthyChan).tick)
  /\ UNCHANGED <<k, runErr, ready, messageBusServers, busConn, signals,
                 nohealthcheckChan, errChan, unhealthyChan, closeChans,
                 schedVars, returned, wire, apiVars>>

RecvUnhealthy ==
  /\ pc = "select" /\ unhealthyChan # << >>
  /\ unhealthyChan' = Tail(unhealthyChan)
  /\ takenLog' = Taken("unhealthyChan", Head(unhealthyChan))
  /\ Dispatch(unregisterRoutes(Head(unhealthyChan).route), "unhealthyChan",
              Head(unhealthyChan).tick)
  /\ UNCHANGED <<k, runErr, ready, messageBusServers, busConn, signals,
                 nohealthcheckChan, errChan, healthyChan, closeChans,
                 schedVars, returned, wire, apiVars>>

\* mutant: the shutdown branch starts the sweep without closing the close
\* channels
RecvSignalNoClose ==
  /\ pc = "select" /\ signals = "pending"
  /\ signals' = "taken"
  /\ pc' = "sweep" /\ k' = 1
  /\ UNCHANGED <<runErr, ready, messageBusServers, busConn, chanVars,
                 closeChans, schedVars, inflight, calls, returned, takenLog,
                 wire, apiVars>>

\* case <-signals: close every closeChan, then start the sweep
RecvSignal ==
  /\ pc = "select" /\ signals = "pending"
  /\ signals' = "taken"
  /\ closeChans' = [i \in RouteIdx |-> TRUE]
  /\ pc' = "sweep" /\ k' = 1
  /\ UNCHANGED <<runErr, ready, messageBusServers, busConn, chanVars,
                 schedVars, inflight, calls, returned, takenLog, wire,
                 apiVars>>

\* mutant: the sweep walks config.Routes backwards
SweepNextReversed ==
  /\ pc = "sweep" /\ k <= NumRoutes
  /\ Dispatch(unregisterRoutes(Routes[NumRoutes + 1 - k]), "signals", 0)
  /\ UNCHANGED <<k, runErr, ready, messageBusServers, busConn, signals,
                 chanVars, closeChans, schedVars, returned, takenLog, wire,
                 apiVars>>

\* for _, route := range r.config.Routes { err := r.unregisterRoutes(route) ...
SweepNext ==
  /\ pc = "sweep" /\ k <= NumRoutes
  /\ Dispatch(unregisterRoutes(Routes[k]), "signals", 0)
  /\ UNCHANGED <<k, runErr, ready, messageBusServers, busConn, signals,
                 chanVars, closeChans, schedVars, returned, takenLog, wire,
                 apiVars>>

\* return nil after the sweep (the deferred messageBus.Close runs)
SweepReturn ==
  /\ pc = "sweep" /\ k > NumRoutes
  /\ pc' = "done" /\ runErr' = NilErr
  /\ busConn' = IF busConn = "connected" THEN "closed" ELSE busConn
  /\ UNCHANGED <<k, ready, messageBusServers, signals, chanVars, closeChans,
                 schedVars, inflight, calls, returned, takenLog, wire,
                 apiVars>>

\* mutant: the sweep logs a failed unregister call and goes on
AfterCallSweepOn(cause, err) ==
  IF err # NilErr /\ cause # "signals"
  THEN /\ pc' = "done" /\ runErr' = err /\ UNCHANGED k
       /\ busConn' = IF busConn = "connected" THEN "closed" ELSE busConn
  ELSE IF cause = "signals"
  THEN /\ pc' = "sweep" /\ k' = k + 1 /\ UNCHANGED <<runErr, busConn>>
  ELSE /\ pc' = "select" /\ UNCHANGED <<k, runErr, busConn>>

\* mutant: the main loop logs a failed call and goes on
AfterCallSwallow(cause, err) ==
  IF err # NilErr /\ cause = "signals"
  THEN /\ pc' = "done" /\ runErr' = err /\ UNCHANGED k
       /\ busConn' = IF busConn = "connected" THEN "closed" ELSE busConn
  ELSE IF cause = "signals"
  THEN /\ pc' = "sweep" /\ k' = k + 1 /\ UNCHANGED <<runErr, busConn>>
  ELSE /\ pc' = "select" /\ UNCHANGED <<k, runErr, busConn>>

\* where Run goes when the call in progress returns err
AfterCall(cause, err) ==
  IF err # NilErr
  THEN /\ pc' = "done" /\ runErr' = err /\ UNCHANGED k
       /\ busConn' = IF busConn = "connected" THEN "closed" ELSE busConn
  ELSE IF cause = "signals"
  THEN /\ pc' = "sweep" /\ k' = k + 1 /\ UNCHANGED <<runErr, busConn>>
  ELSE /\ pc' = "select" /\ UNCHANGED <<k, runErr, busConn>>

\* the collaborator calls ops, made for the registrar call c
Attribute(c, ops) ==
  [j \in 1..Len(ops) |-> [for |-> c.route.name, op |-> c.op, call |-> ops[j]]]

\* messageBus.SendMessage(topic, host, route, privateInstanceId) returns
BusReturn ==
  /\ pc = "call" /\ inflight # << >> /\ Head(inflight).call.via = "messageBus"
  /\ LET c == Head(inflight).call IN
     \E ok \in BOOLEAN :
       /\ wire' = wire \o Attribute(c,
                    <<[op |-> "SendMessage", topic |-> c.topic, host |-> ConfigHost,
                       route |-> c.route, privateInstanceId |-> PrivateInstanceId,
                       ok |-> ok]>>)
       /\ returned' = Append(returned, IF ok THEN NilErr ELSE "publish-error")
       /\ AfterCall(Head(inflight).cause, IF ok THEN NilErr ELSE "publish-error")
  /\ inflight' = Tail(inflight)
  /\ UNCHANGED <<ready, messageBusServers, signals, chanVars, closeChans,
                 schedVars, calls, takenLog, apiVars>>

\* routingAPI.RegisterRoute(route) / routingAPI.UnregisterRoute(route) returns
APIReturn ==
  /\ pc = "call" /\ inflight # << >> /\ Head(inflight).call.via = "routingAPI"
  /\ LET c == Head(inflight).call IN
     \E tokOK \in BOOLEAN, res \in Resolutions, opOK \in BOOLEAN :
       LET r == IF c.method = "RegisterRoute"
                THEN RegisterRoute(c.route, routerGroupGUID, token,
                                   routingAPIMaxTTL, tokOK, res, opOK)
                ELSE UnregisterRoute(c.route, routerGroupGUID, token,
                                     routingAPIMaxTTL, tokOK, res, opOK)
       IN  /\ wire' = wire \o Attribute(c, r.ops)
           /\ routerGroupGUID' = r.cache
           /\ token' = r.token
           /\ returned' = Append(returned, r.err)
           /\ AfterCall(Head(inflight).cause, r.err)
  /\ inflight' = Tail(inflight)
  /\ UNCHANGED <<ready, messageBusServers, signals, chanVars, closeChans,
                 schedVars, calls, takenLog, routingAPIMaxTTL, apiInterval,
                 apiCalls>>

Next ==
  \/ RunStart \/ CloseReady \/ StartSchedulers
  \/ \E i \in RouteIdx : SchedTick(i)
  \/ \E i \in RouteIdx : SchedCheck(i)
  \/ \E i \in RouteIdx : SchedSend(i)
  \/ \E i \in RouteIdx : SchedClose(i)
  \/ SendSignal
  \/ RecvNoHealthcheck \/ RecvErr \/ RecvHealthy \/ RecvUnhealthy \/ RecvSignal
  \/ SweepNext \/ SweepReturn
  \/ BusReturn \/ APIReturn

Spec == Init /\ [][Next]_vars

\* Fairness: the steps of Run between two selects are taken (a started call
\* returns); Go's select chooses uniformly among its ready cases, so a case
\* that is ready again and again is taken; a ticker keeps ticking, a health
\* check ends within its timeout, and a blocked channel send is served once
\* the buffer has room.
CoordStep ==
  RunStart \/ CloseReady \/ StartSchedulers \/ SweepNext \/ SweepReturn \/ BusReturn \/ APIReturn

FairSpec ==
  /\ Start(MaxFairTicks, NumRoutes * MaxFairTicks, {MessageBusServers})
  /\ [][Next]_vars
  /\ WF_vars(CoordStep)
  /\ SF_vars(RecvNoHealthcheck)
  /\ \A i \in RouteIdx : WF_vars(SchedTick(i) \/ SchedCheck(i)) /\ SF_vars(SchedSend(i))

\* ------------------------------------------- the routing API on its own
\* TCP routes registered through a RoutingAPI built with maximum TTL
\* routingAPIMaxTTL: two router groups, with and without an SNI hint.
APIRoutes(interval) ==
  { [Routes[2] EXCEPT !.registrationInterval = interval],
    [Routes[2] EXCEPT !.name = "sni route", !.registrationInterval = interval,
                      !.routerGroup = "other-tcp", !.externalPort = 61001,
                      !.serverCertDomainSAN = "sni.example.com"] }

APIInit ==
  /\ pc = "api" /\ k = 0 /\ runErr = "running" /\ ready = 0
  /\ messageBusServers = MessageBusServers
  /\ busConn = "unconnected" /\ signals = "none"
  /\ nohealthcheckChan = << >> /\ errChan = << >>
  /\ healthyChan = << >> /\ unhealthyChan = << >>
  /\ closeChans = [i \in RouteIdx |-> FALSE]
  /\ spc = [i \in RouteIdx |-> "idle"]
  /\ sclass = [i \in RouteIdx |-> "none"]
  /\ ticks = [i \in RouteIdx |-> 0] /\ tickLimit = 0 /\ tickBudget = 0
  /\ inflight = << >> /\ calls = << >> /\ returned = << >>
  /\ takenLog = << >> /\ wire = << >>
  /\ routerGroupGUID = EmptyCache /\ token = 0
  /\ routingAPIMaxTTL \in {500 * h : h \in 1..MaxHalfSeconds} \cup {5000, 30000}
  /\ apiInterval \in {100 * t : t \in 1..MaxIntervalTenths} \cup {1000, 10000}
  /\ apiCalls = 0

APIStep(call, r) ==
  /\ calls' = Append(calls, [op |-> call.op, route |-> call.route, via |-> call.via,
                             topic |-> call.topic, cause |-> "api", tick |-> 0])
  /\ returned' = Append(returned, r.err)
  /\ wire' = wire \o Attribute(call, r.ops)
  /\ routerGroupGUID' = r.cache
  /\ token' = r.token
  /\ apiCalls' = apiCalls + 1
  /\ UNCHANGED <<pc, k, runErr, ready, messageBusServers, busConn, signals,
                 chanVars, closeChans, schedVars, inflight, takenLog,
                 routingAPIMaxTTL, apiInterval>>

APIRegister ==
  /\ pc = "api" /\ apiCalls < MaxAPICalls
  /\ \E route \in APIRoutes(apiInterval), tokOK \in BOOLEAN,
        res \in Resolutions, opOK \in BOOLEAN :
       APIStep(registerRoutes(route),
               RegisterRoute(route, routerGroupGUID, token, routingAPIMaxTTL,
                             tokOK, res, opOK))

APIUnregister ==
  /\ pc = "api" /\ apiCalls < MaxAPICalls
  /\ \E route \in APIRoutes(apiInterval), tokOK \in BOOLEAN,
        res \in Resolutions, opOK \in BOOLEAN :
       APIStep(unregisterRoutes(route),
               UnregisterRoute(route, routerGroupGUID, token, routingAPIMaxTTL,
                               tokOK, res, opOK))

APINext == APIRegister \/ APIUnregister

APISpec == APIInit /\ [][APINext]_vars

\* ============================================================== claims
EventCalls == SelectSeq(calls, LAMBDA c : c.cause # "signals")
SweepCalls == SelectSeq(calls, LAMBDA c : c.cause = "signals")
ChanOf(i) == CASE i = 1 -> nohealthcheckChan [] i = 2 -> errChan
               [] i = 3 -> healthyChan [] OTHER -> unhealthyChan
\* C1: every health event the main loop takes causes exactly one call, for
\* the event's route, register for a no-check or healthy event and unregister
\* for a check-error or unhealthy event, and that call has returned when the
\* loop is back at its select.
C1_EventCausesOneCall ==
  /\ Len(EventCalls) = Len(takenLog)
  /\ \A j \in 1..Len(takenLog) :
       /\ EventCalls[j].route = takenLog[j].route
       /\ EventCalls[j].cause = takenLog[j].chan
       /\ EventCalls[j].tick = takenLog[j].tick
       /\ EventCalls[j].op =
            IF takenLog[j].chan \in {"nohealthcheckChan", "healthyChan"}
            THEN "register" ELSE "unregister"
  /\ pc = "select" => inflight = << >> /\ Len(returned) = Len(calls)
  /\ Len(calls) - Len(returned) = Len(inflight)

C1_Witness ==
  /\ pc = "select"
  /\ \E a, b, c \in 1..Len(takenLog) :
       /\ takenLog[a].chan = "errChan" /\ takenLog[b].chan = "healthyChan"
       /\ takenLog[c].chan = "nohealthcheckChan"

SweepInOrder(n) ==
  /\ Len(SweepCalls) = n
  /\ \A j \in 1..n : SweepCalls[j].route = Routes[j] /\ SweepCalls[j].op = "unregister"

\* C2: once the main loop has taken the shutdown signal, Run returns; unless
\* an unregister call of the sweep failed it returns nil, having issued
\* exactly one unregister call per configured route, in configuration order,
\* whatever events are buffered or still arrive.
C2_ShutdownSweepsAll ==
  (signals = "taken") ~>
     (pc = "done" /\ (runErr = NilErr => SweepInOrder(NumRoutes))
                  /\ (runErr # NilErr => \E j \in 1..Len(returned) :
                        returned[j] # NilErr /\ calls[j].cause = "signals"))

C2_Witness ==
  /\ pc = "done" /\ runErr = NilErr /\ SweepInOrder(NumRoutes)
  /\ nohealthcheckChan # << >> /\ errChan # << >>

\* C3: for one route, the calls caused by its events are issued in the order
\* of the ticks that produced the events.
C3_SameRouteTickOrder ==
  \A a, b \in 1..Len(calls) :
     (a < b /\ calls[a].cause # "signals" /\ calls[b].cause # "signals"
        /\ calls[a].route = calls[b].route)
       => calls[a].tick < calls[b].tick

\* C4: at most one backend call is in progress, and only while Run is inside
\* registerRoutes / unregisterRoutes.
C4_OneCallInFlight ==
  /\ Len(inflight) <= 1
  /\ inflight # << >> <=> pc = "call"

C4_Witness ==
  /\ Len(inflight) = 1 /\ inflight[1].call.route = Routes[1]
  /\ \E c \in 2..4 : ChanOf(c) # << >>
  /\ spc[2] = "check"

\* C5: when the k-th unregister call of the shutdown sweep fails, Run returns
\* that call's error and the sweep has issued calls for routes 1..k only.
C5_SweepStopsAtFailure ==
  \A j \in 1..Len(returned) :
     (returned[j] # NilErr /\ calls[j].cause = "signals")
       => /\ pc = "done" /\ runErr = returned[j]
          /\ j = Len(calls) /\ inflight = << >>
          /\ k <= NumRoutes /\ calls[j].route = Routes[k]
          /\ SweepInOrder(k)

C5_Witness ==
  /\ pc = "done" /\ k = 1 /\ NumRoutes > 1
  /\ returned # << >> /\ returned[Len(returned)] # NilErr
  /\ calls[Len(calls)].cause = "signals"

\* C6: when a call made for a health event returns an error, Run returns that
\* error and no call is issued after it: no retry, no other event, no sweep.
C6_EventErrorAborts ==
  \A j \in 1..Len(returned) :
     (returned[j] # NilErr /\ calls[j].cause # "signals")
       => /\ pc = "done" /\ runErr = returned[j]
          /\ j = Len(calls) /\ inflight = << >>
          /\ SweepCalls = << >>

C6_Witness ==
  /\ pc = "done" /\ signals = "pending"
  /\ returned # << >> /\ returned[Len(returned)] # NilErr
  /\ calls[Len(calls)].cause = "healthyChan"
  /\ nohealthcheckChan # << >>

NoCheckRoutes == {i \in RouteIdx : ~HasHealthCheck(Routes[i])}
TicksIn(seq, i) == {seq[j].tick : j \in {n \in 1..Len(seq) : seq[n].route = Routes[i]}}
CountIn(seq, i) == Cardinality({n \in 1..Len(seq) : seq[n].route = Routes[i]})
RegistersFor(i) ==
  Cardinality({n \in 1..Len(calls) :
                 calls[n].route = Routes[i] /\ calls[n].cause # "signals"
                   /\ calls[n].op = "register"})
UnregistersFor(i) ==
  Cardinality({n \in 1..Len(calls) :
                 calls[n].route = Routes[i] /\ calls[n].cause # "signals"
                   /\ calls[n].op = "unregister"})

\* C7 as stated: when Run has returned, every tick of a route without health
\* check has yielded one register action, and none has yielded an unregister.
C7_EveryTickRegisters ==
  pc = "done" =>
    \A i \in NoCheckRoutes : RegistersFor(i) = ticks[i] /\ UnregistersFor(i) = 0

\* C7, amended: every tick of a route without health check emits exactly one
\* event, on nohealthcheckChan; each such event the main loop has taken has
\* caused exactly one register call for the route and no unregister call; the
\* other ticks' events are still being sent or buffered.
C7_TickEmitsOneNoCheckEvent ==
  \A i \in NoCheckRoutes :
     /\ sclass[i] \in {"none", "nohealthcheckChan"}
     /\ CountIn(errChan, i) + CountIn(healthyChan, i) + CountIn(unhealthyChan, i) = 0
     /\ CountIn(nohealthcheckChan, i) + CountIn(takenLog, i)
          + (IF spc[i] = "send" THEN 1 ELSE 0) = ticks[i]
     /\ TicksIn(nohealthcheckChan, i) \cup TicksIn(takenLog, i)
          \cup (IF spc[i] = "send" THEN {ticks[i]} ELSE {}) = 1..ticks[i]
     /\ RegistersFor(i) = CountIn(takenLog, i)
     /\ UnregistersFor(i) = 0

C7_Witness ==
  /\ ticks[1] = 2 /\ RegistersFor(1) = 1 /\ CountIn(nohealthcheckChan, 1) = 1
  /\ pc = "done" /\ signals = "taken"

Published(i) ==
  \E j \in 1..Len(wire) :
     /\ wire[j].call.op = "SendMessage" /\ wire[j].call.ok
     /\ wire[j].call.topic = "router.register"
     /\ wire[j].call.route.uris = Routes[i].uris
     /\ wire[j].call.route.port = Routes[i].port
     /\ wire[j].call.route.tags = Routes[i].tags

BusFailed ==
  \/ runErr \in {"failed building NATS mTLS config", "connect-error"}
  \/ \E j \in 1..Len(wire) : wire[j].call.op = "SendMessage" /\ ~wire[j].call.ok

BackendFailed == runErr \notin {"running", NilErr}

\* C8 as stated: with the message bus reachable and no shutdown signal, Run
\* does not return before the HTTP route without health check is registered.
C8_RegisteredUnlessBusFails ==
  (pc = "done" /\ signals = "none" /\ ~BusFailed) => Published(1)

\* C8, amended: unless a shutdown signal is sent or some backend call fails
\* (a message-bus call, or a routing-API call made for another route), a
\* publish on router.register with the route's URIs, port and tags occurs.
C8_EventuallyRegistered ==
  <>(signals # "none" \/ BackendFailed \/ Published(1))

C8_Witness ==
  /\ Published(1) /\ signals = "none" /\ runErr = "running"
  /\ \E j \in 1..Len(calls) : calls[j].via = "routingAPI"

RouteNamed(n) == CHOOSE r \in {Routes[i] : i \in RouteIdx} : r.name = n

\* C9: every collaborator call made for a TCP route is a routing-API call
\* (upsert for register, delete for unregister) and every call made for a
\* route of another type is a publish of that route, on router.register for
\* register and on router.unregister for unregister.
C9_DispatchByType ==
  \A j \in 1..Len(wire) :
     wire[j].for # "" =>
       LET r == RouteNamed(wire[j].for)
           c == wire[j].call
       IN  IF r.type = "tcp"
           THEN /\ c.op \in {"FetchToken", "SetToken", "RouterGroupWithName",
                             "UpsertTcpRouteMappings", "DeleteTcpRouteMappings"}
                /\ c.op = "UpsertTcpRouteMappings" => wire[j].op = "register"
                /\ c.op = "DeleteTcpRouteMappings" => wire[j].op = "unregister"
           ELSE /\ c.op = "SendMessage" /\ c.route = r
                /\ c.topic = IF wire[j].op = "register" THEN "router.register"
                             ELSE "router.unregister"

C9_Witness ==
  \E a, b, c \in 1..Len(wire) :
     /\ wire[a].call.op = "UpsertTcpRouteMappings"
     /\ wire[b].call.op = "DeleteTcpRouteMappings"
     /\ wire[c].call.op = "SendMessage" /\ wire[c].call.topic = "router.unregister"

TTLs ==
  {wire[j].call.mappings[1].ttl :
     j \in {n \in 1..Len(wire) :
              wire[n].call.op \in {"UpsertTcpRouteMappings", "DeleteTcpRouteMappings"}}}

\* C10 as stated: every TTL put in a route mapping is at least 1 and at most
\* the maximum TTL, whatever the interval and the maximum.
C10_TTLWithinBounds ==
  \A ttl \in TTLs : ttl \in Nat /\ 1 <= ttl /\ ttl * 1000 <= routingAPIMaxTTL

\* C10, amended: every TTL put in a route mapping is a whole number of
\* seconds; with a maximum TTL of at least one second it is at least 1 and at
\* most the maximum; with a maximum below one second it is 0 or 1.
C10_TTLWithinBoundsAboveOneSecond ==
  \A ttl \in TTLs :
     /\ ttl \in Nat
     /\ routingAPIMaxTTL >= 1000 => 1 <= ttl /\ ttl * 1000 <= routingAPIMaxTTL
     /\ routingAPIMaxTTL < 1000 => ttl \in {0, 1}

C10_Witness ==
  /\ routingAPIMaxTTL >= 1000 /\ 2 \in TTLs
  /\ TruncDiv(apiInterval * TTL_BUFFER_X10, 10) > routingAPIMaxTTL

\* the reference of C11: raw = interval x 21/10 as a duration; the maximum in
\* whole seconds when raw exceeds it, else raw in whole seconds, 1 for 0
ReferenceTTL(interval, maxTTL) ==
  LET raw == (interval * 21) \div 10
      whole(d) == CHOOSE n \in 0..(d \div 1000) : n * 1000 <= d /\ d < (n + 1) * 1000
  IN  IF raw > maxTTL THEN whole(maxTTL)
      ELSE IF whole(raw) = 0 THEN 1 ELSE whole(raw)

\* C11: the TTL of every route mapping equals the reference; interval 1 s
\* with a larger maximum gives 2, interval 10 s with maximum 5 s gives 5,
\* interval 0.1 s (with a maximum not below the buffered interval) gives 1.
C11_TTLEqualsReference ==
  /\ \A ttl \in TTLs : ttl = ReferenceTTL(apiInterval, routingAPIMaxTTL)
  /\ (apiInterval = 1000 /\ routingAPIMaxTTL >= 2100) => TTLs \subseteq {2}
  /\ (apiInterval = 10000 /\ routingAPIMaxTTL = 5000) => TTLs \subseteq {5}
  /\ (apiInterval = 10000 /\ routingAPIMaxTTL = 30000) => TTLs \subseteq {21}
  /\ (apiInterval = 100 /\ routingAPIMaxTTL >= 210) => TTLs \subseteq {1}

C11_Witness ==
  /\ apiInterval = 10000 /\ routingAPIMaxTTL = 5000 /\ TTLs = {5}

\* positions in wire of the resolution calls made for router-group name n
ResolutionsOf(n) ==
  {j \in 1..Len(wire) : wire[j].call.op = "RouterGroupWithName" /\ wire[j].call.name = n}
RouterGroups == {Routes[i].routerGroup : i \in {j \in RouteIdx : Routes[j].type = "tcp"}}
APIReturns == {j \in 1..Len(returned) : calls[j].via = "routingAPI"}

\* C12: across one run of Run, at most one RouterGroupWithName call is made
\* for each router-group name, whatever register and unregister calls follow
\* one another, also when the resolution fails or yields an empty identifier.
C12_OneResolutionPerRun ==
  \A n \in RouterGroups : Cardinality(ResolutionsOf(n)) <= 1

C12_Witness ==
  /\ Cardinality(APIReturns) >= 3
  /\ \E a, b \in APIReturns : calls[a].op = "register" /\ calls[b].op = "unregister"
  /\ \A n \in RouterGroups : Cardinality(ResolutionsOf(n)) = 1

\* the collaborator calls the step under way appends to wire, and the error
\* the call of that step returns
NewOps == SubSeq(wire', Len(wire) + 1, Len(wire'))
NewErr == returned'[Len(returned')]
OpNames(seg) == {seg[j].call.op : j \in 1..Len(seg)}
BackendOps == {"RouterGroupWithName", "UpsertTcpRouteMappings", "DeleteTcpRouteMappings"}

\* C13: every RegisterRoute / UnregisterRoute call fetches a token exactly
\* once, first of all, and sets the fetched token on the API client before
\* any resolution, upsert or delete of the call; when the fetch fails the call
\* returns the error, sets no token, makes no resolution, upsert or delete
\* call and leaves the router-group cache as it was.
C13_TokenFirst ==
  [][LET seg == NewOps IN
     /\ Len(returned') = Len(returned) + 1
     /\ Len(seg) >= 1 /\ seg[1].call.op = "FetchToken"
     /\ \A j \in 2..Len(seg) : seg[j].call.op # "FetchToken"
     /\ IF seg[1].call.ok
        THEN /\ Len(seg) >= 2 /\ seg[2].call.op = "SetToken"
             /\ seg[2].call.token = token' /\ token' # token
             /\ \A j \in 3..Len(seg) : seg[j].call.op \in BackendOps
        ELSE /\ Len(seg) = 1 /\ NewErr = "token-error"
             /\ token' = token /\ routerGroupGUID' = routerGroupGUID]_vars

C13_Witness ==
  /\ pc = "api" /\ Len(returned) = 2 /\ returned[2] = "token-error"
  /\ routerGroupGUID # EmptyCache
  /\ wire[Len(wire)].call.op = "FetchToken"

\* C14: when the resolution of a route's router-group name fails or yields
\* an empty identifier, RegisterRoute / UnregisterRoute returns an error,
\* "Router group '<name>' not found" for the empty identifier, issues no
\* upsert or delete call and leaves the router-group cache as it was.
C14_FailedResolutionAborts ==
  [][LET seg == NewOps IN
     \A j \in 1..Len(seg) :
       (seg[j].call.op = "RouterGroupWithName" /\ seg[j].call.answer \in {"error", ""})
         => /\ NewErr # NilErr
            /\ seg[j].call.answer = "" =>
                 NewErr = "Router group '" \o seg[j].call.name \o "' not found"
            /\ OpNames(seg) \cap {"UpsertTcpRouteMappings", "DeleteTcpRouteMappings"} = {}
            /\ routerGroupGUID' = routerGroupGUID]_vars

C14_Witness ==
  /\ pc = "api" /\ Len(returned) = 2
  /\ returned[2] = "Router group 'other-tcp' not found"
  /\ DOMAIN routerGroupGUID = {"default-tcp"}
  /\ wire[Len(wire)].call.op = "RouterGroupWithName"

\* the answers of the successful resolutions of name n, in wire order
GoodAnswers(n) ==
  SelectSeq(wire, LAMBDA w : /\ w.call.op = "RouterGroupWithName" /\ w.call.name = n
                             /\ w.call.answer \notin {"error", ""})

\* C19: every cache entry maps its name to the non-empty identifier that the
\* first successful resolution of the name returned; an entry is never
\* changed or removed by a later RegisterRoute / UnregisterRoute call, and a
\* call for a cached name makes no resolution call.
C19_CacheInvariant ==
  /\ [](\A n \in DOMAIN routerGroupGUID :
          /\ routerGroupGUID[n] # ""
          /\ GoodAnswers(n) # << >> /\ routerGroupGUID[n] = GoodAnswers(n)[1].call.answer)
  /\ [][LET seg == NewOps IN
        \A n \in DOMAIN routerGroupGUID :
          /\ n \in DOMAIN routerGroupGUID' /\ routerGroupGUID'[n] = routerGroupGUID[n]
          /\ \A j \in 1..Len(seg) :
               seg[j].call.op = "RouterGroupWithName" => seg[j].call.name # n]_vars

C19_Witness ==
  /\ pc = "api" /\ Len(returned) = 2 /\ returned[2] = NilErr
  /\ \E n \in DOMAIN routerGroupGUID :
       /\ Len(GoodAnswers(n)) = 1 /\ routerGroupGUID[n] = "guid-2"
       /\ calls[1].route.routerGroup = n /\ calls[2].route.routerGroup = n
       /\ wire[1].op = "register" /\ wire[Len(wire)].op = "unregister"

\* the mappings sent with backend call op for the route named n
MappingsSent(op, n) ==
  {wire[j].call.mappings : j \in {i \in 1..Len(wire) : wire[i].call.op = op /\ wire[i].for = n}}

\* C20: the mapping UnregisterRoute passes to delete is the mapping
\* RegisterRoute passes to upsert for the same route (router-group
\* identifier, external port, SNI hint, host, internal port, TTL), and each
\* call carries exactly one mapping.
C20_DeleteMatchesUpsert ==
  \A r \in APIRoutes(apiInterval) :
     /\ \A ms \in MappingsSent("UpsertTcpRouteMappings", r.name)
                    \cup MappingsSent("DeleteTcpRouteMappings", r.name) : Len(ms) = 1
     /\ \A u \in MappingsSent("UpsertTcpRouteMappings", r.name),
           d \in MappingsSent("DeleteTcpRouteMappings", r.name) :
          /\ u = d
          /\ u[1].externalPort = r.externalPort /\ u[1].hostIP = r.host
          /\ u[1].hostPort = r.port /\ u[1].routerGroupGuid = routerGroupGUID[r.routerGroup]

C20_Witness ==
  /\ MappingsSent("UpsertTcpRouteMappings", "sni route") # {}
  /\ MappingsSent("DeleteTcpRouteMappings", "sni route") # {}
  /\ \E ms \in MappingsSent("DeleteTcpRouteMappings", "sni route") :
       ms[1].sni = "sni.example.com" /\ ms[1].ttl = 2

\* positions in wire of the messageBus.Connect calls
ConnectCalls == {j \in 1..Len(wire) : wire[j].call.op = "Connect"}
SchedulersStarted == \E i \in RouteIdx : spc[i] # "idle"
TLSBuildFailed == runErr = "failed building NATS mTLS config"

\* what C15 says of the order of readiness, schedulers and calls, and of a
\* failed Connect
StartupOrder ==
  /\ Cardinality(ConnectCalls) <= 1 /\ ready \in {0, 1}
  /\ ready = 1 => \A j \in ConnectCalls : wire[j].call.ok
  /\ ready = 1 => (Len(messageBusServers) > 0 => ConnectCalls # {})
  /\ (SchedulersStarted \/ calls # << >>) => ready = 1
  /\ pc \in {"spawn", "select", "call", "sweep"} => ready = 1
  /\ (pc = "done" /\ runErr = NilErr) => ready = 1
  /\ (\E j \in ConnectCalls : ~wire[j].call.ok)
       => /\ pc = "done" /\ runErr = "connect-error" /\ ready = 0
          /\ ~SchedulersStarted /\ calls = << >> /\ Len(wire) = 1

\* C15 as stated: once Run is past its first step, Connect has been called
\* if and only if a message-bus server is configured; readiness is signalled
\* exactly once, after a successful Connect (if any) and before any scheduler
\* is started or any call is made; a failed Connect makes Run return its
\* error with no readiness, no scheduler and no backend call.
C15_StartupOrder ==
  /\ pc # "init" => (ConnectCalls # {} <=> Len(messageBusServers) > 0)
  /\ StartupOrder

\* C15, amended: Connect is called only if a message-bus server is
\* configured, and is called whenever one is configured unless building the
\* mTLS configuration failed, in which case Run returns that failure without
\* Connect, readiness, scheduler or call; the rest as stated.
C15_StartupOrderUnlessTLSFails ==
  /\ ConnectCalls # {} => Len(messageBusServers) > 0
  /\ (pc # "init" /\ ~TLSBuildFailed) =>
        (ConnectCalls # {} <=> Len(messageBusServers) > 0)
  /\ TLSBuildFailed => /\ pc = "done" /\ ConnectCalls = {} /\ ready = 0
                       /\ ~SchedulersStarted /\ calls = << >>
  /\ StartupOrder

C15_Witness ==
  /\ messageBusServers = << >> /\ ConnectCalls = {} /\ ready = 1
  /\ SchedulersStarted /\ Len(returned) >= 2 /\ pc = "select"

\* the collaborator calls made for route i, in wire order
WireOf(i) == SelectSeq(wire, LAMBDA w : w.for = Routes[i].name)
IsUnregisterAction(w) ==
  /\ w.op = "unregister"
  /\ \/ w.call.op = "SendMessage" /\ w.call.topic = "router.unregister"
     \/ w.call.op = "DeleteTcpRouteMappings"

\* C16: once Run has taken the shutdown branch it issues no register call
\* any more, every close channel is closed before the first unregister call
\* of the sweep, and when Run has returned nil the last backend action issued
\* for every configured route is an unregister.
C16_ShutdownEndsUnregistered ==
  /\ [][signals = "taken" =>
          \A j \in (Len(calls) + 1)..Len(calls') : calls'[j].op = "unregister"]_vars
  /\ [](/\ SweepCalls # << >> => \A i \in RouteIdx : closeChans[i]
        /\ signals = "taken" => \A i \in RouteIdx : closeChans[i]
        /\ (pc = "done" /\ runErr = NilErr) =>
              \A i \in RouteIdx :
                 /\ WireOf(i) # << >>
                 /\ IsUnregisterAction(WireOf(i)[Len(WireOf(i))]))

C16_Witness ==
  /\ pc = "done" /\ runErr = NilErr
  /\ \A i \in RouteIdx : \E j \in 1..Len(calls) :
        calls[j].route = Routes[i] /\ calls[j].op = "register"
  /\ \E c \in 1..4 : ChanOf(c) # << >>

\* the step under way puts an event of route i on one of the four channels
Emits(i) ==
  \E c \in 1..4 :
     /\ Len(ChanOf(c)') > Len(ChanOf(c))
     /\ ChanOf(c)'[Len(ChanOf(c)')].route = Routes[i]

\* C17 as stated: once the close channel of route i is closed, the scheduler
\* of route i takes no further tick and puts no further event on any of the
\* four channels.
C17_NoEventAfterStop ==
  [][\A i \in RouteIdx : closeChans[i] => ticks'[i] = ticks[i] /\ ~Emits(i)]_vars

\* C17, amended: a scheduler returns only by taking its closed close channel
\* in its select, emits no event in that step, and from then on takes no
\* tick and emits no event; what it emits between the closing and that step
\* (a tick pending at the same moment, a health check in flight) is never
\* taken by the main loop.
C17_NoEventAfterReturn ==
  [][/\ \A i \in RouteIdx :
          /\ spc[i] = "exited" =>
               spc'[i] = "exited" /\ ticks'[i] = ticks[i] /\ ~Emits(i)
          /\ (spc[i] # "exited" /\ spc'[i] = "exited") =>
               closeChans[i] /\ spc[i] = "select" /\ ticks'[i] = ticks[i] /\ ~Emits(i)
     /\ (\E i \in RouteIdx : closeChans[i]) => takenLog' = takenLog]_vars

C17_Witness ==
  /\ \E i \in RouteIdx :
        /\ spc[i] = "exited"
        /\ ticks[i] < tickLimit /\ SumTo(ticks, NumRoutes) < tickBudget
  /\ \E i \in RouteIdx : closeChans[i] /\ spc[i] = "send" /\ ticks[i] >= 2

\* the send scheduler i is in cannot proceed: the buffer is full
Blocked(i) ==
  /\ spc[i] = "send"
  /\ \E c \in 1..4 :
        /\ sclass[i] = <<"nohealthcheckChan", "errChan", "healthyChan", "unhealthyChan">>[c]
        /\ Len(ChanOf(c)) >= NumRoutes

\* C18: after the shutdown branch has closed the close channels, every
\* scheduler terminates; as the main loop reads no channel any more, no
\* scheduler may then be in a send on a full channel.
C18_NoSchedulerBlockedAfterStop ==
  \A i \in RouteIdx : closeChans[i] => ~Blocked(i)

====
